---------------------------- MODULE Spec2Model ----------------------------
(***************************************************************************)
(* Workflow-compliance callbacks of the restaurant agent                   *)
(* (src/restaurant_agent/callbacks.py): the two after-tool trackers and    *)
(* the two before-model gates, run by a host loop over one session; and    *)
(* the backend server's store operations (src/backend-server/server.py),   *)
(* each a handler that loads its JSON files, works on them and saves them. *)
(*                                                                         *)
(* Python values are modelled as follows.                                  *)
(*   None            the record NoneVal                                    *)
(*   dict (state)    a function whose DOMAIN is the set of keys present    *)
(*   list            a sequence; an Optional[list] attribute holds either  *)
(*                   NoneVal or PyList(seq)                                 *)
(*   object          a record; hasattr(o, "f") is "f" \in DOMAIN o         *)
(*   str built by    a sequence of string tokens, the interpolated values  *)
(*   an f-string     being tokens of their own                             *)
(*   raise           the callback's outcome "raise" (nothing is caught in  *)
(*                   callbacks.py, so the exception leaves the callback)   *)
(***************************************************************************)
EXTENDS Naturals, Sequences, FiniteSets, TLC

VARIABLES
    registered,   \* callback pair the host runs in this session: "captain" or "waiter"
    state,        \* callback_context.state / tool_context.state of the session
    events,       \* session.events, the ordered append-only event log
    hashOrder,    \* iteration order of the set REQUIRED_WAITER_TOOLS in this process
    pc,           \* host position: "idle" or "after_callback"
    agent_name,   \* callback_context._invocation_context.agent.name of the turn
    contents_in,  \* llm_request.contents as the host assembled it
    llm_request,  \* llm_request.contents after the callback ran
    last,         \* the callback that ran: [fn, tool, ret]; for a tracker also
                  \* before, the value of the tool's flag when it was entered
    customers,    \* backend: content of customers.json
    tables,       \* backend: content of tables.json
    orders,       \* backend: content of orders.json
    menu,         \* backend: content of menu.json
    bills,        \* backend: content of bills.json
    call,         \* backend: the last tool call, [op, arguments...]
    resp,         \* backend: the dict that call returned
    directives,   \* history: the tools named by the directives injected so far
    proc          \* backend requests in progress: [pc, arguments, loaded file, result]

cvars == <<registered, state, events, hashOrder, pc, agent_name, contents_in,
           llm_request, last>>

bvars == <<customers, tables, orders, menu, bills, call, resp>>

\* The history of directives and the requests in progress, which only the
\* workflow-progress and the concurrent-request specifications change.
xvars == <<directives, proc>>

vars == <<registered, state, events, hashOrder, pc, agent_name, contents_in,
          llm_request, last, customers, tables, orders, menu, bills, call, resp,
          directives, proc>>

---------------------------------------------------------------------------
(* Bounds of the model *)

MaxEvents == 2      \* events the host appends to the log
MaxContents == 2    \* contents of an assembled request
MaxCreated == 2     \* customers get_customer creates
MaxBills == 2       \* bills generate_bill appends
MaxTabAdds == 1     \* successful add_to_tab calls per customer
MaxOrders == 1      \* orders created by create_order
MaxDirectives == 6  \* directives recorded in the history of a session

---------------------------------------------------------------------------
(* Program constants *)

REQUIRED_WAITER_TOOLS == {"get_customer_orders", "get_menu"}

CAPTAIN_WORKFLOW_TOOLS ==
    <<"get_customer", "get_reservations", "check_table_availability",
      "assign_table", "transfer_to_agent">>

CaptainToolSet == {CAPTAIN_WORKFLOW_TOOLS[i] : i \in DOMAIN CAPTAIN_WORKFLOW_TOOLS}

NoneVal == [is_none |-> TRUE]

PyList(s) == [list |-> s]

\* f"waiter_{tool_name}_called" and f"captain_{tool_name}_called"
WaiterKey(tool_name) == "waiter_" \o tool_name \o "_called"
CaptainKey(tool_name) == "captain_" \o tool_name \o "_called"

\* state.get(key, False)
StateGet(st, key) == IF key \in DOMAIN st THEN st[key] ELSE FALSE

\* Mutant of StateSetTrue: the assignment rebinds State to a fresh dict.
StateSetFresh(st, key) == [k \in {key} |-> TRUE]

\* Mutant of StateSetTrue: the assignment flips the flag it finds.
StateSetToggle(st, key) ==
    [k \in (DOMAIN st) \cup {key} |-> IF k = key THEN ~StateGet(st, key) ELSE st[k]]

\* state[key] = True
StateSetTrue(st, key) ==
    [k \in (DOMAIN st) \cup {key} |-> IF k = key THEN TRUE ELSE st[k]]

\* Mutant of IsWaiterAgent and IsCaptainAgent: the check of the agent name is
\* missing and the gate runs for every agent.
AnyAgent(agent) == TRUE

\* agent_name != "waiter_agent" and agent_name != "captain_agent": the gate
\* goes on only for its own agent.
IsWaiterAgent(agent) == agent = "waiter_agent"
IsCaptainAgent(agent) == agent = "captain_agent"

\* hasattr(obj, "function_call") and obj.function_call
HasFunctionCall(obj) ==
    /\ "function_call" \in DOMAIN obj
    /\ obj.function_call # NoneVal

---------------------------------------------------------------------------
(* Values the host hands to the callbacks *)

\* Tools of the backend an agent can call (tools.py), one of them unregistered
\* with both gates.
ToolNames == CaptainToolSet \cup REQUIRED_WAITER_TOOLS \cup {"create_order"}

AgentNames == {"captain_agent", "waiter_agent", "chef_agent"}

CallEvent(n) == [function_call |-> [name |-> n]]
CallEventWithResponse(n, r) == [function_call |-> [name |-> n], function_response |-> r]
MessageEvent == [author |-> "user"]

\* Events a session of one role appends: calls of the role's registered tools,
\* a call of a tool the role's gate does not register, and a message event.
EventKinds(role) ==
    IF role = "captain"
    THEN {CallEvent(n) : n \in CaptainToolSet \cup {"create_order"}}
            \cup {CallEventWithResponse("get_customer", [id |-> "cust001"])}
            \cup {MessageEvent}
    ELSE {CallEvent(n) : n \in REQUIRED_WAITER_TOOLS \cup {"create_order"}}
            \cup {MessageEvent}

TextPart == [text |-> <<"Table for two, please">>, function_call |-> NoneVal]
CallPart == [function_call |-> [name |-> "get_menu"]]

UserContent(parts) == [role |-> "user", parts |-> parts]

ContentKinds ==
    { UserContent(NoneVal),
      UserContent(PyList(<<TextPart>>)),
      UserContent(PyList(<<TextPart, CallPart>>)) }

RECURSIVE SeqsUpTo(_, _)
SeqsUpTo(S, n) ==
    IF n = 0 THEN {<<>>}
    ELSE LET shorter == SeqsUpTo(S, n - 1)
         IN  shorter \cup {Append(s, x) : s \in {t \in shorter : Len(t) = n - 1}, x \in S}

Requests == SeqsUpTo(ContentKinds, MaxContents)

---------------------------------------------------------------------------
(* track_waiter_tools / track_captain_tools *)

\* Mutant of TrackWaiterState: the membership test of the tool name is missing
\* and a flag is written for every tool.
TrackWaiterStateAny(st, tool) == StateSetTrue(st, WaiterKey(tool))

TrackWaiterState(st, tool) ==
    IF tool \in REQUIRED_WAITER_TOOLS THEN StateSetTrue(st, WaiterKey(tool)) ELSE st

\* Mutant of TrackCaptainState: the tracker records nothing.
TrackCaptainStateNever(st, tool) == st

TrackCaptainState(st, tool) ==
    IF tool \in CaptainToolSet THEN StateSetTrue(st, CaptainKey(tool)) ELSE st

---------------------------------------------------------------------------
(* The scan of the pending request shared by both gates *)

\* for part in content.parts: ... break   (on a list)
RECURSIVE PartsHaveCall(_)
PartsHaveCall(parts) ==
    IF parts = <<>> THEN FALSE
    ELSE HasFunctionCall(Head(parts)) \/ PartsHaveCall(Tail(parts))

\* for content in llm_request.contents: for part in content.parts: ...
\* Iterating content.parts raises TypeError when it is None; the break leaves
\* the inner loop only, so every content is visited.
RECURSIVE ScanContents(_, _)
ScanContents(contents, has_tool_calls) ==
    IF contents = <<>> THEN [raised |-> FALSE, has_tool_calls |-> has_tool_calls]
    ELSE LET content == Head(contents) IN
         IF content.parts = NoneVal
         THEN [raised |-> TRUE, has_tool_calls |-> has_tool_calls]
         ELSE ScanContents(Tail(contents),
                           has_tool_calls \/ PartsHaveCall(content.parts.list))

\* types.Content(role="user", parts=[types.Part.from_text(text=instruction_text)])
InstructionContent(instruction_text) ==
    UserContent(PyList(<<[text |-> instruction_text, function_call |-> NoneVal]>>))

\* llm_request.contents.insert(0, instruction_content)
InsertFront(contents, c) == <<c>> \o contents

---------------------------------------------------------------------------
(* enforce_waiter_prerequisites *)

\* tools_called = {tool_name: state.get(...) for tool_name in REQUIRED_WAITER_TOOLS}
WaiterToolsCalled(st) ==
    [t \in REQUIRED_WAITER_TOOLS |-> StateGet(st, WaiterKey(t))]

\* for event in session.events: ... tools_called[tool_name] = True; state[...] = True
RECURSIVE WaiterReconcile(_, _, _)
WaiterReconcile(evs, tools_called, st) ==
    IF evs = <<>> THEN [tools_called |-> tools_called, state |-> st]
    ELSE LET event == Head(evs) IN
         IF HasFunctionCall(event) /\ event.function_call.name \in REQUIRED_WAITER_TOOLS
         THEN WaiterReconcile(Tail(evs),
                              [tools_called EXCEPT ![event.function_call.name] = TRUE],
                              StateSetTrue(st, WaiterKey(event.function_call.name)))
         ELSE WaiterReconcile(Tail(evs), tools_called, st)

\* Mutant of AllCalled: any() in place of all().
AnyCalled(tools_called) == \E t \in DOMAIN tools_called : tools_called[t]

\* all(tools_called.values())
AllCalled(tools_called) == \A t \in DOMAIN tools_called : tools_called[t]

\* Mutant of MissingTools: the filter on called is lost.
MissingToolsUnfiltered(tools_called, order) == order

\* missing_tools = [tool for tool, called in tools_called.items() if not called]
\* (a dict built from a set keeps the set's iteration order)
MissingTools(tools_called, order) ==
    SelectSeq(order, LAMBDA t : ~tools_called[t])

RECURSIVE WaiterBullets(_)
WaiterBullets(missing) ==
    IF missing = <<>> THEN <<>>
    ELSE <<"- ", Head(missing), "\n">> \o WaiterBullets(Tail(missing))

WaiterInstructionText(missing) ==
    <<"CRITICAL: Before greeting or asking the customer anything, you MUST first call these tools:\n">>
        \o WaiterBullets(missing)
        \o <<"\nDo NOT greet the customer or ask any questions until you have called ALL of these tools. Call them now automatically without asking the customer.">>

\* The whole handler: [state, contents, ret] after the call.
EnforceWaiterResult(agent, st, evs, contents, order) ==
    IF ~IsWaiterAgent(agent)
    THEN [state |-> st, contents |-> contents, ret |-> "None"]
    ELSE LET rec == WaiterReconcile(evs, WaiterToolsCalled(st), st)
             scan == ScanContents(contents, FALSE)
             missing == MissingTools(rec.tools_called, order)
         IN  IF AllCalled(rec.tools_called)
             THEN [state |-> rec.state, contents |-> contents, ret |-> "None"]
             ELSE IF scan.raised
             THEN [state |-> rec.state, contents |-> contents, ret |-> "raise"]
             ELSE IF scan.has_tool_calls
             THEN [state |-> rec.state, contents |-> contents, ret |-> "None"]
             ELSE [state |-> rec.state,
                   contents |-> InsertFront(contents,
                                    InstructionContent(WaiterInstructionText(missing))),
                   ret |-> "None"]

---------------------------------------------------------------------------
(* enforce_captain_workflow *)

\* for event in session.events: if ... event.function_call.name == tool_name
EventsHaveCall(evs, tool_name) ==
    \E i \in DOMAIN evs :
        HasFunctionCall(evs[i]) /\ evs[i].function_call.name = tool_name

\* Mutant of CaptainToolsCalled: called is read from State only, the scan of
\* session.events is missing.
CaptainToolsCalledFromState(st, evs) ==
    [t \in CaptainToolSet |-> StateGet(st, CaptainKey(t))]

\* The loop over CAPTAIN_WORKFLOW_TOOLS: tools_called and the state it writes.
CaptainToolsCalled(st, evs) ==
    [t \in CaptainToolSet |-> StateGet(st, CaptainKey(t)) \/ EventsHaveCall(evs, t)]

\* Mutant of CaptainReconcile: the scan sets called but never writes State.
CaptainReconcileNoWrite(i, st, evs) == st

\* Mutant of CaptainReconcile: the write of the flag is outside the test of the
\* event's tool name, so every step's flag is written.
CaptainReconcileAll(i, st, evs) ==
    [k \in (DOMAIN st) \cup {CaptainKey(t) : t \in CaptainToolSet} |->
        IF k \in DOMAIN st /\ k \notin {CaptainKey(t) : t \in CaptainToolSet} THEN st[k] ELSE TRUE]

RECURSIVE CaptainReconcile(_, _, _)
CaptainReconcile(i, st, evs) ==
    IF i > Len(CAPTAIN_WORKFLOW_TOOLS) THEN st
    ELSE LET t == CAPTAIN_WORKFLOW_TOOLS[i] IN
         CaptainReconcile(i + 1,
                          IF EventsHaveCall(evs, t) THEN StateSetTrue(st, CaptainKey(t)) ELSE st,
                          evs)

\* Mutant of LastCompletedFrom: the loop has no else-break, so the index of
\* the last completed step is taken whatever gaps precede it.
LastCompletedNoBreak(i, tools_called) ==
    LET done == {j \in i..Len(CAPTAIN_WORKFLOW_TOOLS) : tools_called[CAPTAIN_WORKFLOW_TOOLS[j]]}
    IN  IF done = {} THEN i - 1 ELSE CHOOSE j \in done : \A k \in done : k <= j

\* The loop computing last_completed_index.  Steps are numbered from 1 here, so
\* the value is last_completed_index + 1, which is the code's next_tool_index.
RECURSIVE LastCompletedFrom(_, _)
LastCompletedFrom(i, tools_called) ==
    IF i > Len(CAPTAIN_WORKFLOW_TOOLS) THEN i - 1
    ELSE IF tools_called[CAPTAIN_WORKFLOW_TOOLS[i]]
         THEN LastCompletedFrom(i + 1, tools_called)
         ELSE i - 1

\* next_tool_index = last_completed_index + 1 (0-based, as in the code)
NextToolIndex(tools_called) == LastCompletedFrom(1, tools_called)

\* Mutant of ExtractCustomerId: the lookup of the response is missing and
\* customer_id stays None.
ExtractCustomerIdNone(evs, i) == NoneVal

\* Mutant of ExtractCustomerId: the most recent get_customer event yields an id
\* whether or not its response carries one, a default standing in for it.
ExtractCustomerIdDefault(evs, i) ==
    IF \E j \in 1..i : HasFunctionCall(evs[j]) /\ evs[j].function_call.name = "get_customer"
    THEN [id |-> "unknown"]
    ELSE NoneVal

\* Mutant of ExtractCustomerId: the break is missing, so the scan goes on to
\* older events when the most recent get_customer event yields no id, and an
\* older id overwrites a newer one.
RECURSIVE ExtractCustomerIdNoBreak(_, _)
ExtractCustomerIdNoBreak(evs, i) ==
    IF i = 0 THEN NoneVal
    ELSE LET event == evs[i]
             older == ExtractCustomerIdNoBreak(evs, i - 1) IN
         IF /\ HasFunctionCall(event) /\ event.function_call.name = "get_customer"
            /\ "function_response" \in DOMAIN event
            /\ "id" \in DOMAIN event.function_response
            /\ older = NoneVal
         THEN [id |-> event.function_response.id]
         ELSE older

\* for event in reversed(session.events): first get_customer call event, then break
RECURSIVE ExtractCustomerId(_, _)
ExtractCustomerId(evs, i) ==
    IF i = 0 THEN NoneVal
    ELSE LET event == evs[i] IN
         IF HasFunctionCall(event) /\ event.function_call.name = "get_customer"
         THEN IF /\ "function_response" \in DOMAIN event
                 /\ "id" \in DOMAIN event.function_response
              THEN [id |-> event.function_response.id]
              ELSE NoneVal
         ELSE ExtractCustomerId(evs, i - 1)

\* The if/elif chain building instruction_text.  Token 2 is the tool name the
\* text puts between backquotes (the backquote characters are left out).
CaptainInstructionText(next_tool, evs) ==
    CASE next_tool = "get_reservations" ->
            LET customer_id == ExtractCustomerId(evs, Len(evs)) IN
            IF customer_id # NoneVal /\ customer_id.id # ""
            THEN <<"CRITICAL: You MUST immediately call ", "get_reservations",
                   " with customer_id='", customer_id.id,
                   "'. Do NOT ask the customer if they have a reservation - check automatically. Call the tool now.">>
            ELSE <<"CRITICAL: You MUST immediately call ", "get_reservations",
                   " with the customer_id from the previous get_customer call. Do NOT ask the customer if they have a reservation - check automatically. Call the tool now.">>
      [] next_tool = "check_table_availability" ->
            <<"CRITICAL: You MUST immediately call ", "check_table_availability",
              " to find available tables. Do NOT ask the customer - check automatically. Call the tool now.">>
      [] next_tool = "assign_table" ->
            <<"CRITICAL: You MUST immediately call ", "assign_table",
              " to seat the customer. Use one of the available tables from the previous check_table_availability result. Call the tool now.">>
      [] next_tool = "transfer_to_agent" ->
            <<"CRITICAL: You MUST immediately call ", "transfer_to_agent",
              " with agent_name='waiter_agent'. Include the customer_id and table_id in your message. Call the function now.">>
      [] OTHER -> <<>>

\* Mutant of HasInstruction: the elif branch of transfer_to_agent is missing.
HasInstructionNoTransfer(next_tool) ==
    next_tool \in {"get_reservations", "check_table_availability", "assign_table"}

\* Steps for which the if/elif chain builds a text; for any other the else
\* branch returns None.
HasInstruction(next_tool) ==
    next_tool \in {"get_reservations", "check_table_availability",
                   "assign_table", "transfer_to_agent"}

WorkflowComplete(tools_called) ==
    NextToolIndex(tools_called) = Len(CAPTAIN_WORKFLOW_TOOLS)

EnforceCaptainResult(agent, st, evs, contents) ==
    IF ~IsCaptainAgent(agent)
    THEN [state |-> st, contents |-> contents, ret |-> "None"]
    ELSE LET tools_called == CaptainToolsCalled(st, evs)
             st2 == CaptainReconcile(1, st, evs)
             scan == ScanContents(contents, FALSE)
             next_tool_index == NextToolIndex(tools_called)
         IN  IF WorkflowComplete(tools_called)
             THEN [state |-> st2, contents |-> contents, ret |-> "None"]
             ELSE IF scan.raised
             THEN [state |-> st2, contents |-> contents, ret |-> "raise"]
             ELSE IF scan.has_tool_calls
             THEN [state |-> st2, contents |-> contents, ret |-> "None"]
             ELSE IF next_tool_index >= Len(CAPTAIN_WORKFLOW_TOOLS)
             THEN [state |-> st2, contents |-> contents, ret |-> "None"]
             ELSE LET next_tool == CAPTAIN_WORKFLOW_TOOLS[next_tool_index + 1] IN
                  IF HasInstruction(next_tool)
                  THEN [state |-> st2,
                        contents |-> InsertFront(contents,
                                        InstructionContent(CaptainInstructionText(next_tool, evs))),
                        ret |-> "None"]
                  ELSE [state |-> st2, contents |-> contents, ret |-> "None"]


---------------------------------------------------------------------------
(* The host (spec.md section 6): after_tool after each tool execution,     *)
(* before_turn on the assembled request prior to generation.  A session    *)
(* runs the callback pair of one agent role; the two pairs touch disjoint  *)
(* keys of State (WaiterKey / CaptainKey).  A session starts empty, or is  *)
(* resumed from a stored log of a finished run with State lost, as in      *)
(* test_enforce_captain_workflow_complete.                                 *)

EmptyState == [k \in {} |-> TRUE]

NoCall == [op |-> "none"]
NoResponse == [status |-> "none"]

\* The data directory does not exist yet (_load_json returns []) and no tool
\* of the backend has been called.
BackendNotCalled ==
    /\ customers = <<>>
    /\ tables = <<>>
    /\ orders = <<>>
    /\ menu = [items |-> <<>>]
    /\ bills = <<>>
    /\ call = NoCall
    /\ resp = NoResponse

\* No directive was injected and no backend request is in progress.
NoHistory ==
    /\ directives = <<>>
    /\ proc = <<>>

CaptainFullLog == [i \in DOMAIN CAPTAIN_WORKFLOW_TOOLS |-> CallEvent(CAPTAIN_WORKFLOW_TOOLS[i])]

WaiterFullLog == <<CallEvent("get_customer_orders"), CallEvent("get_menu")>>

NoCallback == [fn |-> "none", tool |-> "", ret |-> "None"]

Init ==
    /\ registered \in {"captain", "waiter"}
    /\ state = EmptyState
    /\ events \in {<<>>, IF registered = "captain" THEN CaptainFullLog ELSE WaiterFullLog}
    /\ hashOrder \in IF registered = "waiter"
                     THEN {<<"get_customer_orders", "get_menu">>,
                           <<"get_menu", "get_customer_orders">>}
                     ELSE {<<"get_customer_orders", "get_menu">>}
    /\ pc = "idle"
    /\ agent_name = ""
    /\ contents_in = <<>>
    /\ llm_request = <<>>
    /\ last = NoCallback
    /\ BackendNotCalled
    /\ NoHistory

\* The host appends an event to session.events.
AppendEvent ==
    /\ pc = "idle"
    /\ Len(events) < MaxEvents
    /\ \E e \in EventKinds(registered) : events' = Append(events, e)
    /\ UNCHANGED <<registered, state, hashOrder, pc, agent_name, contents_in,
                   llm_request, last>>
    /\ UNCHANGED <<bvars, xvars>>

TrackWaiterTools ==
    /\ pc = "idle"
    /\ registered = "waiter"
    /\ \E tool \in ToolNames :
          /\ state' = TrackWaiterState(state, tool)
          /\ last' = [fn |-> "track_waiter_tools", tool |-> tool, ret |-> "None",
                       before |-> StateGet(state, WaiterKey(tool))]
    /\ pc' = "after_callback"
    /\ UNCHANGED <<registered, events, hashOrder, agent_name, contents_in, llm_request>>
    /\ UNCHANGED <<bvars, xvars>>

TrackCaptainTools ==
    /\ pc = "idle"
    /\ registered = "captain"
    /\ \E tool \in ToolNames :
          /\ state' = TrackCaptainState(state, tool)
          /\ last' = [fn |-> "track_captain_tools", tool |-> tool, ret |-> "None",
                       before |-> StateGet(state, CaptainKey(tool))]
    /\ pc' = "after_callback"
    /\ UNCHANGED <<registered, events, hashOrder, agent_name, contents_in, llm_request>>
    /\ UNCHANGED <<bvars, xvars>>

EnforceWaiterPrerequisites ==
    /\ pc = "idle"
    /\ registered = "waiter"
    /\ \E a \in AgentNames, req \in Requests :
          LET r == EnforceWaiterResult(a, state, events, req, hashOrder) IN
          /\ agent_name' = a
          /\ contents_in' = req
          /\ state' = r.state
          /\ llm_request' = r.contents
          /\ last' = [fn |-> "enforce_waiter_prerequisites", tool |-> "", ret |-> r.ret]
    /\ pc' = "after_callback"
    /\ UNCHANGED <<registered, events, hashOrder>>
    /\ UNCHANGED <<bvars, xvars>>

EnforceCaptainWorkflow ==
    /\ pc = "idle"
    /\ registered = "captain"
    /\ \E a \in AgentNames, req \in Requests :
          LET r == EnforceCaptainResult(a, state, events, req) IN
          /\ agent_name' = a
          /\ contents_in' = req
          /\ state' = r.state
          /\ llm_request' = r.contents
          /\ last' = [fn |-> "enforce_captain_workflow", tool |-> "", ret |-> r.ret]
    /\ pc' = "after_callback"
    /\ UNCHANGED <<registered, events, hashOrder>>
    /\ UNCHANGED <<bvars, xvars>>

\* The callback has returned (or raised) and the host moves on; the request
\* object of the turn is dropped.
EndCallback ==
    /\ pc = "after_callback"
    /\ pc' = "idle"
    /\ agent_name' = ""
    /\ contents_in' = <<>>
    /\ llm_request' = <<>>
    /\ last' = NoCallback
    /\ UNCHANGED <<registered, state, events, hashOrder>>
    /\ UNCHANGED <<bvars, xvars>>

Next ==
    \/ AppendEvent
    \/ TrackWaiterTools
    \/ TrackCaptainTools
    \/ EnforceWaiterPrerequisites
    \/ EnforceCaptainWorkflow
    \/ EndCallback

Spec == Init /\ [][Next]_vars

---------------------------------------------------------------------------
(* The system as assembled (agent.py, sub_agents/waiter.py): the host runs  *)
(* the before_model_callback of the agent whose turn it is prior to         *)
(* generation and its after_tool_callback after each tool execution, when   *)
(* the Agent(...) call registered one.                                      *)

\* The agent whose turns a session of one role consists of.
ActiveAgent(role) == IF role = "captain" THEN "captain_agent" ELSE "waiter_agent"

\* before_model_callback= and after_tool_callback= of the Agent(...) calls
BeforeModelCallback(agent) ==
    IF agent = "captain_agent" THEN "enforce_captain_workflow" ELSE "none"

AfterToolCallback(agent) ==
    IF agent = "captain_agent" THEN "track_captain_tools" ELSE "none"

\* The outcome of the before-model hook fn on a request; with no hook
\* registered the request goes to generation as it is.
HookResult(fn, agent, st, evs, contents, order) ==
    CASE fn = "enforce_captain_workflow" -> EnforceCaptainResult(agent, st, evs, contents)
      [] fn = "enforce_waiter_prerequisites" -> EnforceWaiterResult(agent, st, evs, contents, order)
      [] OTHER -> [state |-> st, contents |-> contents, ret |-> "None"]

\* The State after the after-tool hook fn ran for a tool.
TrackResult(fn, st, tool) ==
    CASE fn = "track_captain_tools" -> TrackCaptainState(st, tool)
      [] fn = "track_waiter_tools" -> TrackWaiterState(st, tool)
      [] OTHER -> st

\* A turn of the session's agent: the request is assembled and the agent's
\* before-model hook runs on it.
AgentTurn ==
    /\ pc = "idle"
    /\ \E req \in Requests :
          LET a == ActiveAgent(registered)
              fn == BeforeModelCallback(a)
              r == HookResult(fn, a, state, events, req, hashOrder)
          IN  /\ agent_name' = a
              /\ contents_in' = req
              /\ state' = r.state
              /\ llm_request' = r.contents
              /\ last' = [fn |-> fn, tool |-> "", ret |-> r.ret]
    /\ pc' = "after_callback"
    /\ UNCHANGED <<registered, events, hashOrder>>
    /\ UNCHANGED <<bvars, xvars>>

\* The session's agent executed a tool and its after-tool hook runs.
ToolExecuted ==
    /\ pc = "idle"
    /\ \E tool \in ToolNames :
          LET a == ActiveAgent(registered)
              fn == AfterToolCallback(a)
          IN  /\ state' = TrackResult(fn, state, tool)
              /\ agent_name' = a
              /\ last' = [fn |-> fn, tool |-> tool, ret |-> "None"]
    /\ pc' = "after_callback"
    /\ UNCHANGED <<registered, events, hashOrder, contents_in, llm_request>>
    /\ UNCHANGED <<bvars, xvars>>

AssembledNext ==
    \/ AppendEvent
    \/ AgentTurn
    \/ ToolExecuted
    \/ EndCallback

AssembledSpec == Init /\ [][AssembledNext]_vars

---------------------------------------------------------------------------
(* The captain workflow with an agent that follows every directive: after  *)
(* a captain gate evaluation that injected a directive, the agent calls    *)
(* the tool the directive names, and the host runs the tracker for that    *)
(* call, logs the call event, or both, before the next evaluation.         *)

\* A State holding the flags of a set of captain tools.
FlagsOf(tools) == [k \in {CaptainKey(t) : t \in tools} |-> TRUE]

ProgressInit ==
    /\ registered = "captain"
    /\ state \in {FlagsOf(tools) : tools \in SUBSET CaptainToolSet}
    /\ events \in {<<>>, <<CallEvent("get_customer")>>}
    /\ hashOrder = <<"get_customer_orders", "get_menu">>
    /\ pc = "idle"
    /\ agent_name = ""
    /\ contents_in = <<>>
    /\ llm_request = <<>>
    /\ last = NoCallback
    /\ BackendNotCalled
    /\ NoHistory

\* The tool named by the block a gate evaluation put in front of req, as a
\* one-element sequence; empty when the evaluation added nothing.
NamedBy(req, contents) ==
    IF Len(contents) = Len(req) + 1 THEN <<contents[1].parts.list[1].text[2]>> ELSE <<>>

\* A turn of captain_agent on the request req: enforce_captain_workflow runs.
CaptainTurn(req) ==
    LET r == EnforceCaptainResult("captain_agent", state, events, req) IN
    /\ pc = "idle"
    /\ Len(directives) < MaxDirectives
    /\ agent_name' = "captain_agent"
    /\ contents_in' = req
    /\ state' = r.state
    /\ llm_request' = r.contents
    /\ last' = [fn |-> "enforce_captain_workflow", tool |-> "", ret |-> r.ret]
    /\ directives' = directives \o NamedBy(req, r.contents)
    /\ pc' = "after_callback"
    /\ UNCHANGED <<registered, events, hashOrder, proc>>
    /\ UNCHANGED bvars

\* The requests whose contents all carry parts and hold no function_call.
PlainRequests ==
    {req \in Requests :
        \A i \in DOMAIN req :
            /\ req[i].parts # NoneVal
            /\ \A j \in DOMAIN req[i].parts.list :
                  req[i].parts.list[j].function_call = NoneVal}

PlainTurn == \E req \in PlainRequests : CaptainTurn(req)

OtherTurn == \E req \in Requests \ PlainRequests : CaptainTurn(req)

\* The last evaluation injected a directive that the agent has not followed yet.
DirectivePending ==
    /\ pc = "after_callback"
    /\ last.fn = "enforce_captain_workflow"
    /\ Len(llm_request) = Len(contents_in) + 1

\* The agent calls the tool the directive names; the call is tracked by
\* track_captain_tools, logged in session.events, or both.
FollowDirective ==
    /\ DirectivePending
    /\ LET tool == llm_request[1].parts.list[1].text[2] IN
       \E how \in {"tracked", "logged", "both"} :
          /\ state' = IF how \in {"tracked", "both"}
                      THEN TrackCaptainState(state, tool) ELSE state
          /\ events' = IF how \in {"logged", "both"}
                       THEN Append(events, CallEvent(tool)) ELSE events
    /\ pc' = "idle"
    /\ agent_name' = ""
    /\ contents_in' = <<>>
    /\ llm_request' = <<>>
    /\ last' = NoCallback
    /\ UNCHANGED <<registered, hashOrder, directives, proc>>
    /\ UNCHANGED bvars

\* A turn that injected nothing ends.
TurnEnds ==
    /\ ~DirectivePending
    /\ EndCallback

\* The agent calls a workflow tool on its own and the tracker runs.
UnpromptedCall ==
    /\ pc = "idle"
    /\ \E tool \in CaptainToolSet : state' = TrackCaptainState(state, tool)
    /\ UNCHANGED <<registered, events, hashOrder, pc, agent_name, contents_in,
                   llm_request, last>>
    /\ UNCHANGED <<bvars, xvars>>

ProgressNext ==
    \/ PlainTurn
    \/ OtherTurn
    \/ FollowDirective
    \/ TurnEnds
    \/ UnpromptedCall

\* Turns on a plain request keep coming, a pending directive is followed and
\* a callback returns.
ProgressSpec ==
    /\ ProgressInit
    /\ [][ProgressNext]_vars
    /\ SF_vars(PlainTurn)
    /\ WF_vars(FollowDirective)
    /\ WF_vars(TurnEnds)

---------------------------------------------------------------------------
(* The backend server (src/backend-server/server.py).  A handler loads the *)
(* JSON files it needs, works on the loaded lists and saves the files it    *)
(* changed; the handlers run one at a time here.  Amounts are in cents.     *)
(* Timestamps (created_at, seated_at, paid_at) are the value Now; a str     *)
(* that may be None is NoneVal or PyStr(s); a name is the sequence of its   *)
(* characters, so that lower() and the substring test are computed.         *)

PyStr(s) == [str |-> s]

Now == [isoformat |-> "now"]

Min(S) == CHOOSE x \in S : \A y \in S : x <= y

\* str.lower() on the characters that occur in the names used here
LowerChar(c) ==
    CASE c = "A" -> "a"
      [] c = "B" -> "b"
      [] c = "G" -> "g"
      [] c = "J" -> "j"
      [] c = "P" -> "p"
      [] c = "S" -> "s"
      [] OTHER -> c

PyLower(s) == [i \in DOMAIN s |-> LowerChar(s[i])]

\* sub in s, for two str
PyIn(sub, s) ==
    \E k \in 0..Len(s) :
        /\ k + Len(sub) <= Len(s)
        /\ \A i \in DOMAIN sub : s[k + i] = sub[i]

\* str(uuid.uuid4())[:8]: the n-th value drawn for the records of one kind;
\* every value drawn differs from the ones drawn before it.
NewId(kind, n) == "uuid-" \o kind \o ToString(n)

\* The stores of the test fixture (test_backend_tools.py, _init_test_data).
FixtureCustomers ==
    << [id |-> "cust001", name |-> <<"J","o","h","n"," ","S","m","i","t","h">>,
        phone |-> "555-0101", total_visits |-> 0, tab_balance |-> 0],
       [id |-> "cust002", name |-> <<"S","a","r","a","h"," ","J","o","h","n","s","o","n">>,
        phone |-> "555-0102", total_visits |-> 0, tab_balance |-> 0] >>

FixtureTables ==
    << [id |-> "table01", capacity |-> 2, status |-> "available",
        customer_id |-> NoneVal, seated_at |-> NoneVal],
       [id |-> "table02", capacity |-> 4, status |-> "available",
        customer_id |-> NoneVal, seated_at |-> NoneVal],
       [id |-> "table03", capacity |-> 6, status |-> "occupied",
        customer_id |-> PyStr("cust001"), seated_at |-> Now] >>

FixtureOrders ==
    << [id |-> "order001", customer_id |-> "cust001", table_id |-> "table03",
        total |-> 3398, status |-> "served"] >>

FixtureMenu ==
    [items |->
        << [id |-> "app001", name |-> <<"B","r","u","s","c","h","e","t","t","a">>,
            category |-> "appetizers", price |-> 899],
           [id |-> "main001",
            name |-> <<"G","r","i","l","l","e","d"," ","S","a","l","m","o","n">>,
            category |-> "mains", price |-> 2499] >>]

\* Arguments of the tool calls.
NameArgs == { <<>>, <<"j","o","h","n">>, <<"A","n","n">> }
PhoneArgs == { "", "555-0101", "555-8888" }
CustomerIdArgs == { "cust001", "cust002" }
TableIdArgs == { "table01", "table02", "table03", "nonexistent" }
CapacityArgs == { 2, 6, 8 }
PaymentMethodArgs == { "card", "cash" }
TabCustomerArgs == { "cust001", "nonexistent" }
TabAmountArgs == { 1000 }
ItemsArgs ==
    { <<>>,
      << [name |-> <<"b","r","u","s","c","h","e","t","t","a">>, quantity |-> 2] >>,
      << [name |-> <<"G","r","i","l","l","e","d"," ","S","a","l","m","o","n">>],
         [name |-> <<"P","i","z","z","a">>, quantity |-> 1] >> }
OrderCustomerArgs == { "cust001" }
OrderTableArgs == { "table03" }
StatusArgs == { "pending", "preparing", "ready", "served", "cancelled" }

ErrorResponse(message) == [status |-> "error", message |-> message]

\* get_customer: the first stored customer matching by phone or by name
GetCustomerResult(custs, name, phone, new_id) ==
    LET hits == {i \in DOMAIN custs :
                    \/ phone # "" /\ custs[i].phone = phone
                    \/ name # <<>> /\ PyIn(PyLower(name), PyLower(custs[i].name))}
        new_customer == [id |-> new_id, name |-> name, phone |-> phone,
                         total_visits |-> 0, tab_balance |-> 0]
    IN  IF hits # {}
        THEN [customers |-> custs,
              resp |-> [status |-> "found", customer |-> custs[Min(hits)]]]
        ELSE [customers |-> Append(custs, new_customer),
              resp |-> [status |-> "created", customer |-> new_customer]]

\* Mutant of AssignTableResult: the test of the table's status is missing.
AssignTableUnchecked(tbls, customer_id, table_id) ==
    LET hits == {i \in DOMAIN tbls : tbls[i].id = table_id} IN
    IF hits = {} THEN [tables |-> tbls, resp |-> ErrorResponse("Table not found")]
    ELSE LET table == [tbls[Min(hits)] EXCEPT !.status = "occupied",
                                              !.customer_id = PyStr(customer_id),
                                              !.seated_at = Now]
         IN  [tables |-> [tbls EXCEPT ![Min(hits)] = table],
              resp |-> [status |-> "success", table |-> table]]

\* assign_table
AssignTableResult(tbls, customer_id, table_id) ==
    LET hits == {i \in DOMAIN tbls : tbls[i].id = table_id} IN
    IF hits = {} THEN [tables |-> tbls, resp |-> ErrorResponse("Table not found")]
    ELSE IF tbls[Min(hits)].status # "available"
    THEN [tables |-> tbls, resp |-> ErrorResponse("Table is not available")]
    ELSE LET table == [tbls[Min(hits)] EXCEPT !.status = "occupied",
                                              !.customer_id = PyStr(customer_id),
                                              !.seated_at = Now]
         IN  [tables |-> [tbls EXCEPT ![Min(hits)] = table],
              resp |-> [status |-> "success", table |-> table]]

\* Mutant of ReleaseTableResult: the table is marked available but its
\* customer_id is not cleared.
ReleaseTableKeepCustomer(tbls, capacity) ==
    LET hits == {i \in DOMAIN tbls :
                    tbls[i].capacity = capacity /\ tbls[i].status = "occupied"} IN
    IF hits = {}
    THEN [tables |-> tbls,
          resp |-> ErrorResponse("No occupied table found with capacity " \o ToString(capacity))]
    ELSE LET table == [tbls[Min(hits)] EXCEPT !.status = "available",
                                              !.seated_at = NoneVal]
         IN  [tables |-> [tbls EXCEPT ![Min(hits)] = table],
              resp |-> [status |-> "success", table |-> table]]

\* release_table: the first occupied table of the given capacity
ReleaseTableResult(tbls, capacity) ==
    LET hits == {i \in DOMAIN tbls :
                    tbls[i].capacity = capacity /\ tbls[i].status = "occupied"} IN
    IF hits = {}
    THEN [tables |-> tbls,
          resp |-> ErrorResponse("No occupied table found with capacity " \o ToString(capacity))]
    ELSE LET table == [tbls[Min(hits)] EXCEPT !.status = "available",
                                              !.customer_id = NoneVal,
                                              !.seated_at = NoneVal]
         IN  [tables |-> [tbls EXCEPT ![Min(hits)] = table],
              resp |-> [status |-> "success", table |-> table]]

RECURSIVE SumTotals(_)
SumTotals(ords) == IF ords = <<>> THEN 0 ELSE Head(ords).total + SumTotals(Tail(ords))

\* round(total * num / 100, 2) on an amount in cents
RoundCents(cents, num) == (cents * num + 50) \div 100

\* generate_bill
GenerateBillResult(ords, bls, customer_id, new_id) ==
    LET Unpaid(o) == o.customer_id = customer_id /\ o.status \in {"served", "ready"}
        unpaid_orders == SelectSeq(ords, Unpaid)
        total == SumTotals(unpaid_orders)
        new_bill == [id |-> new_id,
                     customer_id |-> customer_id,
                     orders |-> [i \in DOMAIN unpaid_orders |-> unpaid_orders[i].id],
                     subtotal |-> total,
                     tax |-> RoundCents(total, 8),
                     total |-> RoundCents(total, 108),
                     status |-> "pending"]
    IN  IF unpaid_orders = <<>>
        THEN [bills |-> bls, resp |-> ErrorResponse("No orders to bill")]
        ELSE [bills |-> Append(bls, new_bill),
              resp |-> [status |-> "success", bill |-> new_bill]]

\* bill["status"] = "paid"; bill["payment_method"] = ...; bill["paid_at"] = ...
PaidBill(bill, payment_method) ==
    [k \in (DOMAIN bill) \cup {"payment_method", "paid_at"} |->
        CASE k = "status" -> "paid"
          [] k = "payment_method" -> payment_method
          [] k = "paid_at" -> Now
          [] OTHER -> bill[k]]

\* the first customer with the bill's customer_id gets total_visits + 1
CountVisit(custs, customer_id) ==
    LET hits == {i \in DOMAIN custs : custs[i].id = customer_id} IN
    IF hits = {} THEN custs
    ELSE [custs EXCEPT ![Min(hits)].total_visits = @ + 1]

\* Mutant of ProcessPaymentResult: the test for an already paid bill is missing.
ProcessPaymentUnchecked(bls, custs, bill_id, payment_method) ==
    LET hits == {i \in DOMAIN bls : bls[i].id = bill_id} IN
    IF hits = {}
    THEN [bills |-> bls, customers |-> custs, resp |-> ErrorResponse("Bill not found")]
    ELSE LET bill == PaidBill(bls[Min(hits)], payment_method) IN
         [bills |-> [bls EXCEPT ![Min(hits)] = bill],
          customers |-> CountVisit(custs, bill.customer_id),
          resp |-> [status |-> "success", message |-> "Payment processed successfully",
                    bill |-> bill]]

\* process_payment
ProcessPaymentResult(bls, custs, bill_id, payment_method) ==
    LET hits == {i \in DOMAIN bls : bls[i].id = bill_id} IN
    IF hits = {}
    THEN [bills |-> bls, customers |-> custs, resp |-> ErrorResponse("Bill not found")]
    ELSE IF bls[Min(hits)].status = "paid"
    THEN [bills |-> bls, customers |-> custs, resp |-> ErrorResponse("Bill already paid")]
    ELSE LET bill == PaidBill(bls[Min(hits)], payment_method) IN
         [bills |-> [bls EXCEPT ![Min(hits)] = bill],
          customers |-> CountVisit(custs, bill.customer_id),
          resp |-> [status |-> "success", message |-> "Payment processed successfully",
                    bill |-> bill]]

\* add_to_tab
AddToTabResult(custs, customer_id, amount) ==
    LET hits == {i \in DOMAIN custs : custs[i].id = customer_id} IN
    IF hits = {}
    THEN [customers |-> custs, resp |-> ErrorResponse("Customer not found")]
    ELSE LET customer == [custs[Min(hits)] EXCEPT !.tab_balance = @ + amount] IN
         [customers |-> [custs EXCEPT ![Min(hits)] = customer],
          resp |-> [status |-> "success", tab_balance |-> customer.tab_balance,
                    customer |-> customer]]

\* The server starts on a data directory that does not exist yet or on the
\* files of the fixture; the agent callbacks are not part of these runs.
BackendInit ==
    /\ registered = "captain"
    /\ state = EmptyState
    /\ events = <<>>
    /\ hashOrder = <<"get_customer_orders", "get_menu">>
    /\ pc = "idle"
    /\ agent_name = ""
    /\ contents_in = <<>>
    /\ llm_request = <<>>
    /\ last = NoCallback
    /\ NoHistory
    /\ \/ /\ customers = <<>>
          /\ tables = <<>>
          /\ orders = <<>>
          /\ menu = [items |-> <<>>]
       \/ /\ customers = FixtureCustomers
          /\ tables = FixtureTables
          /\ orders = FixtureOrders
          /\ menu = FixtureMenu
    /\ bills = <<>>
    /\ call = NoCall
    /\ resp = NoResponse

\* Customers that get_customer created (the fixture's ids are not uuid values).
CreatedCustomers == {i \in DOMAIN customers : customers[i].id \notin {"cust001", "cust002"}}

GetCustomer ==
    \E name \in NameArgs, phone \in PhoneArgs :
        LET r == GetCustomerResult(customers, name, phone,
                                   NewId("customer", Cardinality(CreatedCustomers) + 1)) IN
        /\ r.resp.status = "created" => Cardinality(CreatedCustomers) < MaxCreated
        /\ customers' = r.customers
        /\ call' = [op |-> "get_customer", name |-> name, phone |-> phone]
        /\ resp' = r.resp
        /\ UNCHANGED <<tables, orders, menu, bills>>
        /\ UNCHANGED <<cvars, xvars>>

AssignTable ==
    \E customer_id \in CustomerIdArgs, table_id \in TableIdArgs :
        LET r == AssignTableResult(tables, customer_id, table_id) IN
        /\ tables' = r.tables
        /\ call' = [op |-> "assign_table", customer_id |-> customer_id, table_id |-> table_id]
        /\ resp' = r.resp
        /\ UNCHANGED <<customers, orders, menu, bills>>
        /\ UNCHANGED <<cvars, xvars>>

ReleaseTable ==
    \E capacity \in CapacityArgs :
        LET r == ReleaseTableResult(tables, capacity) IN
        /\ tables' = r.tables
        /\ call' = [op |-> "release_table", capacity |-> capacity]
        /\ resp' = r.resp
        /\ UNCHANGED <<customers, orders, menu, bills>>
        /\ UNCHANGED <<cvars, xvars>>

\* item.get(key, default) on an item dict of the items argument.
ItemGet(item, key, default) == IF key \in DOMAIN item THEN item[key] ELSE default

\* next((m for m in menu.get("items", []) if m.name.lower() == item.name.lower()), None):
\* the index of the first menu item of that name, 0 for None.
MenuItemIndex(mn, item) ==
    LET its == IF "items" \in DOMAIN mn THEN mn.items ELSE <<>>
        hit == {k \in DOMAIN its :
                   PyLower(its[k].name) = PyLower(ItemGet(item, "name", <<>>))} IN
    IF hit = {} THEN 0 ELSE Min(hit)

\* The loop of create_order over the items argument: the order lines of the
\* items found on the menu, and their total in cents.
RECURSIVE OrderItems(_, _)
OrderItems(mn, items) ==
    IF items = <<>> THEN <<>>
    ELSE LET k == MenuItemIndex(mn, Head(items))
             rest == OrderItems(mn, Tail(items)) IN
         IF k = 0 THEN rest
         ELSE << [name |-> mn.items[k].name, price |-> mn.items[k].price,
                  quantity |-> ItemGet(Head(items), "quantity", 1)] >> \o rest

RECURSIVE ItemsTotal(_)
ItemsTotal(order_items) ==
    IF order_items = <<>> THEN 0
    ELSE Head(order_items).price * Head(order_items).quantity
         + ItemsTotal(Tail(order_items))

CreateOrderResult(ords, mn, customer_id, table_id, items, new_id) ==
    LET order_items == OrderItems(mn, items)
        new_order == [id |-> new_id, customer_id |-> customer_id,
                      table_id |-> table_id, items |-> order_items,
                      total |-> RoundCents(ItemsTotal(order_items), 100),
                      status |-> "pending", created_at |-> Now] IN
    [orders |-> Append(ords, new_order),
     resp |-> [status |-> "created", order |-> new_order]]

\* order["status"] = status; order["updated_at"] = now: the key is added when absent.
SetStatus(order, status) ==
    [k \in DOMAIN order \cup {"updated_at"} |->
        IF k = "status" THEN status
        ELSE IF k = "updated_at" THEN Now
        ELSE order[k]]

UpdateOrderStatusResult(ords, order_id, status) ==
    LET hit == {i \in DOMAIN ords : ords[i].id = order_id} IN
    IF hit = {} THEN [orders |-> ords, resp |-> ErrorResponse("Order not found")]
    ELSE LET i == Min(hit)
             order == SetStatus(ords[i], status) IN
         [orders |-> [ords EXCEPT ![i] = order],
          resp |-> [status |-> "success", order |-> order]]

GenerateBill ==
    \E customer_id \in CustomerIdArgs :
        LET r == GenerateBillResult(orders, bills, customer_id,
                                    NewId("bill", Len(bills) + 1)) IN
        /\ r.resp.status = "success" => Len(bills) < MaxBills
        /\ bills' = r.bills
        /\ call' = [op |-> "generate_bill", customer_id |-> customer_id]
        /\ resp' = r.resp
        /\ UNCHANGED <<customers, tables, orders, menu>>
        /\ UNCHANGED <<cvars, xvars>>

ProcessPayment ==
    \E bill_id \in {bills[i].id : i \in DOMAIN bills} \cup {"nonexistent"},
       payment_method \in PaymentMethodArgs :
        LET r == ProcessPaymentResult(bills, customers, bill_id, payment_method) IN
        /\ bills' = r.bills
        /\ customers' = r.customers
        /\ call' = [op |-> "process_payment", bill_id |-> bill_id,
                    payment_method |-> payment_method]
        /\ resp' = r.resp
        /\ UNCHANGED <<tables, orders, menu>>
        /\ UNCHANGED <<cvars, xvars>>

AddToTab ==
    \E customer_id \in TabCustomerArgs, amount \in TabAmountArgs :
        LET r == AddToTabResult(customers, customer_id, amount) IN
        /\ \A i \in DOMAIN r.customers :
              r.customers[i].tab_balance <= MaxTabAdds * amount
        /\ customers' = r.customers
        /\ call' = [op |-> "add_to_tab", customer_id |-> customer_id, amount |-> amount]
        /\ resp' = r.resp
        /\ UNCHANGED <<tables, orders, menu, bills>>
        /\ UNCHANGED <<cvars, xvars>>

\* The table handlers work on tables.json alone and the customer and billing
\* handlers on customers.json, orders.json and bills.json alone, so the two
\* groups are run as two specifications.
TablesNext ==
    \/ AssignTable
    \/ ReleaseTable

TablesSpec == BackendInit /\ [][TablesNext]_vars

\* tables.json of the fixture with table02 holding two seats as table01 does,
\* so that one capacity is shared by two tables.
PairedTables == [FixtureTables EXCEPT ![2].capacity = FixtureTables[1].capacity]

FloorInit ==
    /\ registered = "captain"
    /\ state = EmptyState
    /\ events = <<>>
    /\ hashOrder = <<"get_customer_orders", "get_menu">>
    /\ pc = "idle"
    /\ agent_name = ""
    /\ contents_in = <<>>
    /\ llm_request = <<>>
    /\ last = NoCallback
    /\ NoHistory
    /\ customers = FixtureCustomers
    /\ tables \in {FixtureTables, PairedTables}
    /\ orders = FixtureOrders
    /\ menu = FixtureMenu
    /\ bills = <<>>
    /\ call = NoCall
    /\ resp = NoResponse

FloorSpec == FloorInit /\ [][TablesNext]_vars

BillingNext ==
    \/ GetCustomer
    \/ GenerateBill
    \/ ProcessPayment
    \/ AddToTab

BillingSpec == BackendInit /\ [][BillingNext]_vars

CreatedOrders == Cardinality({i \in DOMAIN orders : orders[i].id # "order001"})

CreateOrder ==
    \E customer_id \in OrderCustomerArgs, table_id \in OrderTableArgs,
       items \in ItemsArgs :
        LET r == CreateOrderResult(orders, menu, customer_id, table_id, items,
                                   NewId("order", Len(orders) + 1)) IN
        /\ CreatedOrders < MaxOrders
        /\ orders' = r.orders
        /\ call' = [op |-> "create_order", customer_id |-> customer_id,
                    table_id |-> table_id, items |-> items]
        /\ resp' = r.resp
        /\ UNCHANGED <<customers, tables, menu, bills>>
        /\ UNCHANGED <<cvars, xvars>>

UpdateOrderStatus ==
    \E order_id \in {orders[i].id : i \in DOMAIN orders} \cup {"nonexistent"},
       status \in StatusArgs :
        LET r == UpdateOrderStatusResult(orders, order_id, status) IN
        /\ orders' = r.orders
        /\ call' = [op |-> "update_order_status", order_id |-> order_id,
                    status |-> status]
        /\ resp' = r.resp
        /\ UNCHANGED <<customers, tables, menu, bills>>
        /\ UNCHANGED <<cvars, xvars>>

OrdersNext == CreateOrder \/ UpdateOrderStatus

OrdersSpec == BackendInit /\ [][OrdersNext]_vars

(***************************************************************************)
(* The HTTP tool wrappers of tools.py in front of the table operations.    *)
(* A wrapper posts the tool name and an arguments dict; the backend calls  *)
(* the operation of that name with the dict's entries as keyword arguments.*)
(***************************************************************************)
ALL_TOOLS ==
    { "get_customer", "get_reservations", "create_reservation",
      "check_table_availability", "assign_table", "release_table", "get_menu",
      "get_customer_orders", "create_order", "get_order_status",
      "update_order_status", "generate_bill", "process_payment", "add_to_tab" }

\* The keys of the arguments dict each wrapper passes to _call_backend_tool.
WrapperArgumentNames(tool) ==
    CASE tool = "get_customer" -> {"name", "phone"}
      [] tool = "get_reservations" -> {"customer_id", "date"}
      [] tool = "create_reservation" -> {"customer_id", "date", "time", "party_size"}
      [] tool = "check_table_availability" -> {"party_size"}
      [] tool = "assign_table" -> {"customer_id", "table_id"}
      [] tool = "release_table" -> {"table_id"}
      [] tool = "get_menu" -> {"category"}
      [] tool = "get_customer_orders" -> {"customer_id", "limit"}
      [] tool = "create_order" -> {"customer_id", "table_id", "items"}
      [] tool = "get_order_status" -> {"order_id"}
      [] tool = "update_order_status" -> {"order_id", "status"}
      [] tool = "generate_bill" -> {"customer_id"}
      [] tool = "process_payment" -> {"bill_id", "payment_method"}
      [] tool = "add_to_tab" -> {"customer_id", "amount"}

\* Each wrapper stores its own parameter of that name under each key.
WrapperArguments(tool, params) == [k \in WrapperArgumentNames(tool) |-> params[k]]

\* The parameter names of the backend operations (their def lines).
BackendParameters(tool) ==
    CASE tool = "get_customer" -> {"name", "phone"}
      [] tool = "get_reservations" -> {"customer_id", "date"}
      [] tool = "create_reservation" -> {"customer_id", "date", "time", "party_size"}
      [] tool = "check_table_availability" -> {"party_size"}
      [] tool = "assign_table" -> {"customer_id", "table_id"}
      [] tool = "release_table" -> {"capacity"}
      [] tool = "get_menu" -> {"category"}
      [] tool = "get_customer_orders" -> {"customer_id", "limit"}
      [] tool = "create_order" -> {"customer_id", "table_id", "items"}
      [] tool = "get_order_status" -> {"order_id"}
      [] tool = "update_order_status" -> {"order_id", "status"}
      [] tool = "generate_bill" -> {"customer_id"}
      [] tool = "process_payment" -> {"bill_id", "payment_method"}
      [] tool = "add_to_tab" -> {"customer_id", "amount"}

\* The parameters that have a default value and may be left out.
BackendDefaults(tool) ==
    CASE tool = "get_reservations" -> {"customer_id", "date"}
      [] tool = "get_menu" -> {"category"}
      [] tool = "get_customer_orders" -> {"limit"}
      [] OTHER -> {}

\* A call with keyword arguments binds when every key is a parameter and
\* every parameter without a default has a key.
Binds(tool, arguments) ==
    /\ DOMAIN arguments \subseteq BackendParameters(tool)
    /\ BackendParameters(tool) \ BackendDefaults(tool) \subseteq DOMAIN arguments

RECURSIVE SelectTables(_, _)
SelectTables(tbls, party_size) ==
    IF tbls = <<>> THEN <<>>
    ELSE LET t == Head(tbls)
             rest == SelectTables(Tail(tbls), party_size) IN
         IF t.status = "available" /\ t.capacity >= party_size
         THEN <<t>> \o rest ELSE rest

CheckTableAvailabilityResult(tbls, party_size) ==
    LET available == SelectTables(tbls, party_size) IN
    [tables |-> tbls,
     resp |-> [status |-> "success", available_tables |-> available,
               count |-> Len(available)]]

\* The operation the backend runs for a table tool; a call that does not
\* bind never enters the operation and reaches no file.
TableToolResult(tool, arguments, tbls) ==
    IF ~Binds(tool, arguments)
    THEN [tables |-> tbls, resp |-> [status |-> "invalid_arguments"]]
    ELSE CASE tool = "check_table_availability" ->
                  CheckTableAvailabilityResult(tbls, arguments.party_size)
           [] tool = "assign_table" ->
                  AssignTableResult(tbls, arguments.customer_id, arguments.table_id)
           [] tool = "release_table" ->
                  ReleaseTableResult(tbls, arguments.capacity)

\* _call_backend_tool: the request posted and the result returned to the wrapper.
CallBackendTool(tool, arguments, tbls) ==
    LET r == TableToolResult(tool, arguments, tbls) IN
    [tables |-> r.tables, call |-> [op |-> tool, arguments |-> arguments],
     resp |-> r.resp]

ToolCheckTableAvailability ==
    \E party_size \in CapacityArgs :
        LET r == CallBackendTool("check_table_availability",
                     WrapperArguments("check_table_availability",
                                      [party_size |-> party_size]), tables) IN
        /\ tables' = r.tables
        /\ call' = r.call
        /\ resp' = r.resp
        /\ UNCHANGED <<customers, orders, menu, bills>>
        /\ UNCHANGED <<cvars, xvars>>

ToolAssignTable ==
    \E customer_id \in CustomerIdArgs, table_id \in TableIdArgs :
        LET r == CallBackendTool("assign_table",
                     WrapperArguments("assign_table",
                                      [customer_id |-> customer_id,
                                       table_id |-> table_id]), tables) IN
        /\ tables' = r.tables
        /\ call' = r.call
        /\ resp' = r.resp
        /\ UNCHANGED <<customers, orders, menu, bills>>
        /\ UNCHANGED <<cvars, xvars>>

ToolReleaseTable ==
    \E table_id \in TableIdArgs :
        LET r == CallBackendTool("release_table",
                     WrapperArguments("release_table", [table_id |-> table_id]),
                     tables) IN
        /\ tables' = r.tables
        /\ call' = r.call
        /\ resp' = r.resp
        /\ UNCHANGED <<customers, orders, menu, bills>>
        /\ UNCHANGED <<cvars, xvars>>

WrapperNext == ToolCheckTableAvailability \/ ToolAssignTable \/ ToolReleaseTable

WrapperSpec == BackendInit /\ [][WrapperNext]_vars

---------------------------------------------------------------------------
(* The seating step of a captain session: the agent executes assign_table  *)
(* on the backend, the host runs track_captain_tools with the response,    *)
(* call events are logged, and the captain gate is evaluated.              *)

\* Mutant of TrackCaptainCall: a call whose response has status error is not
\* recorded.
TrackCaptainCallOnSuccess(st, tool, tool_response) ==
    IF tool_response.status = "error" THEN st ELSE TrackCaptainState(st, tool)

\* track_captain_tools(tool, args, tool_context, tool_response): the response
\* is not read.
TrackCaptainCall(st, tool, tool_response) == TrackCaptainState(st, tool)

SeatingInit ==
    /\ registered = "captain"
    /\ state \in {EmptyState,
                  FlagsOf({"get_customer", "get_reservations",
                           "check_table_availability"})}
    /\ events = <<>>
    /\ hashOrder = <<"get_customer_orders", "get_menu">>
    /\ pc = "idle"
    /\ agent_name = ""
    /\ contents_in = <<>>
    /\ llm_request = <<>>
    /\ last = NoCallback
    /\ NoHistory
    /\ customers = FixtureCustomers
    /\ tables = FixtureTables
    /\ orders = FixtureOrders
    /\ menu = FixtureMenu
    /\ bills = <<>>
    /\ call = NoCall
    /\ resp = NoResponse

\* The agent executes assign_table and the after-tool callback runs with the
\* dict the backend returned.
SeatCustomer ==
    /\ pc = "idle"
    /\ \E customer_id \in CustomerIdArgs, table_id \in TableIdArgs :
          LET r == AssignTableResult(tables, customer_id, table_id) IN
          /\ tables' = r.tables
          /\ call' = [op |-> "assign_table", customer_id |-> customer_id,
                      table_id |-> table_id]
          /\ resp' = r.resp
          /\ state' = TrackCaptainCall(state, "assign_table", r.resp)
    /\ last' = [fn |-> "track_captain_tools", tool |-> "assign_table", ret |-> "None",
                 before |-> StateGet(state, CaptainKey("assign_table"))]
    /\ pc' = "after_callback"
    /\ UNCHANGED <<registered, events, hashOrder, agent_name, contents_in, llm_request>>
    /\ UNCHANGED <<customers, orders, menu, bills>>
    /\ UNCHANGED xvars

\* The host logs an assign_table call event; it carries no response.
LogAssignCall ==
    /\ pc = "idle"
    /\ Len(events) < MaxEvents
    /\ events' = Append(events, CallEvent("assign_table"))
    /\ UNCHANGED <<registered, state, hashOrder, pc, agent_name, contents_in,
                   llm_request, last>>
    /\ UNCHANGED <<bvars, xvars>>

SeatingNext ==
    \/ SeatCustomer
    \/ LogAssignCall
    \/ EnforceCaptainWorkflow
    \/ EndCallback

SeatingSpec == SeatingInit /\ [][SeatingNext]_vars

---------------------------------------------------------------------------
(* The event log of a captain session as the host records tool calls with  *)
(* their responses, and the captain gate evaluated on it.                   *)

\* The dict the backend's get_customer returns for a known customer.
BackendCustomerResult ==
    GetCustomerResult(FixtureCustomers, <<"j", "o", "h", "n">>, "555-0101",
                      NewId("customer", Len(FixtureCustomers) + 1)).resp

ToolEvents ==
    { CallEvent("get_customer"),
      CallEventWithResponse("get_customer", [id |-> "cust001"]),
      CallEventWithResponse("get_customer", [id |-> "cust002"]),
      CallEventWithResponse("get_customer", BackendCustomerResult),
      CallEventWithResponse("get_reservations", [id |-> "res001"]),
      MessageEvent }

LogToolEvent ==
    /\ pc = "idle"
    /\ Len(events) < MaxEvents
    /\ \E e \in ToolEvents : events' = Append(events, e)
    /\ UNCHANGED <<registered, state, hashOrder, pc, agent_name, contents_in,
                   llm_request, last>>
    /\ UNCHANGED <<bvars, xvars>>

ExtractionInit ==
    /\ registered = "captain"
    /\ state = EmptyState
    /\ events = <<>>
    /\ hashOrder = <<"get_customer_orders", "get_menu">>
    /\ pc = "idle"
    /\ agent_name = ""
    /\ contents_in = <<>>
    /\ llm_request = <<>>
    /\ last = NoCallback
    /\ BackendNotCalled
    /\ NoHistory

ExtractionNext ==
    \/ LogToolEvent
    \/ EnforceCaptainWorkflow
    \/ EndCallback

ExtractionSpec == ExtractionInit /\ [][ExtractionNext]_vars

---------------------------------------------------------------------------
(* Two assign_table requests served concurrently.  Each request loads      *)
(* tables.json into a list of its own, checks the table's status in that   *)
(* list, and writes the whole list back; the steps of the two interleave.  *)

Requesters == {1, 2}

ConcurrentInit ==
    /\ registered = "captain"
    /\ state = EmptyState
    /\ events = <<>>
    /\ hashOrder = <<"get_customer_orders", "get_menu">>
    /\ pc = "idle"
    /\ agent_name = ""
    /\ contents_in = <<>>
    /\ llm_request = <<>>
    /\ last = NoCallback
    /\ directives = <<>>
    /\ customers = FixtureCustomers
    /\ tables = FixtureTables
    /\ orders = FixtureOrders
    /\ menu = FixtureMenu
    /\ bills = <<>>
    /\ call = NoCall
    /\ resp = NoResponse
    /\ proc \in [Requesters ->
                    [pc : {"start"}, customer_id : CustomerIdArgs,
                     table_id : TableIdArgs, loaded : {<<>>}, ret : {NoResponse}]]

\* tables = _load_json("tables.json")
LoadTables(p) ==
    /\ proc[p].pc = "start"
    /\ proc' = [proc EXCEPT ![p].pc = "loaded", ![p].loaded = tables]
    /\ UNCHANGED <<cvars, bvars, directives>>

\* The loop up to the status test: an error is returned at once, otherwise
\* the request goes on to change its list and save it.
CheckStatus(p) ==
    /\ proc[p].pc = "loaded"
    /\ LET r == AssignTableResult(proc[p].loaded, proc[p].customer_id, proc[p].table_id) IN
       proc' = IF r.resp.status = "error"
               THEN [proc EXCEPT ![p].pc = "done", ![p].ret = r.resp]
               ELSE [proc EXCEPT ![p].pc = "checked"]
    /\ UNCHANGED <<cvars, bvars, directives>>

\* The assignments to the table of the request's list, _save_json of the
\* whole list, and the return of success.
WriteTables(p) ==
    /\ proc[p].pc = "checked"
    /\ LET r == AssignTableResult(proc[p].loaded, proc[p].customer_id, proc[p].table_id) IN
       /\ tables' = r.tables
       /\ proc' = [proc EXCEPT ![p].pc = "done", ![p].ret = r.resp]
    /\ UNCHANGED <<customers, orders, menu, bills, call, resp>>
    /\ UNCHANGED <<cvars, directives>>

ConcurrentNext ==
    \E p \in Requesters :
        \/ LoadTables(p)
        \/ CheckStatus(p)
        \/ WriteTables(p)

ConcurrentSpec == ConcurrentInit /\ [][ConcurrentNext]_vars

---------------------------------------------------------------------------
(* Vocabulary of the properties *)

GATES == {"enforce_waiter_prerequisites", "enforce_captain_workflow"}

\* A gate has just been evaluated; the variables show its inputs and outcome.
GateRan(fn) == pc = "after_callback" /\ last.fn = fn

CaptainGateRan == GateRan("enforce_captain_workflow") /\ agent_name = "captain_agent"
WaiterGateRan == GateRan("enforce_waiter_prerequisites") /\ agent_name = "waiter_agent"

\* A call of tool t is in the session event log.
CallLogged(t) ==
    \E i \in DOMAIN events :
        /\ "function_call" \in DOMAIN events[i]
        /\ events[i].function_call # NoneVal
        /\ events[i].function_call.name = t

FlagTrue(key) == key \in DOMAIN state /\ state[key] = TRUE

\* A step is complete when its flag is true in State or its call is logged.
CaptainStepComplete(i) ==
    FlagTrue(CaptainKey(CAPTAIN_WORKFLOW_TOOLS[i])) \/ CallLogged(CAPTAIN_WORKFLOW_TOOLS[i])

WaiterStepComplete(t) == FlagTrue(WaiterKey(t)) \/ CallLogged(t)

\* First incomplete step of the ordered list, numbered from 1; Len + 1 if none.
FirstIncomplete ==
    LET open == {i \in DOMAIN CAPTAIN_WORKFLOW_TOOLS : ~CaptainStepComplete(i)}
    IN  IF open = {} THEN Len(CAPTAIN_WORKFLOW_TOOLS) + 1
        ELSE CHOOSE i \in open : \A j \in open : i <= j

\* The assembled request holds a part with a function_call.
RequestHasToolCall ==
    \E i \in DOMAIN contents_in :
        /\ contents_in[i].parts # NoneVal
        /\ \E j \in DOMAIN contents_in[i].parts.list :
              /\ "function_call" \in DOMAIN contents_in[i].parts.list[j]
              /\ contents_in[i].parts.list[j].function_call # NoneVal

\* Every content of the assembled request carries a list of parts.
RequestPartsPresent == \A i \in DOMAIN contents_in : contents_in[i].parts # NoneVal

RequestUnchanged == llm_request = contents_in

\* One block was added at position 0, the previous contents follow in order.
OnePrepended ==
    /\ Len(llm_request) = Len(contents_in) + 1
    /\ \A i \in DOMAIN contents_in : llm_request[i + 1] = contents_in[i]

\* The text of the block at position 0, when it is a one-part text block.
IsDirectiveBlock(c) ==
    /\ c.role = "user"
    /\ c.parts # NoneVal
    /\ Len(c.parts.list) = 1
    /\ "text" \in DOMAIN c.parts.list[1]
    /\ c.parts.list[1].function_call = NoneVal

DirectiveText == llm_request[1].parts.list[1].text

DirectivePrepended == OnePrepended /\ IsDirectiveBlock(llm_request[1])

\* The tool a captain directive instructs to call (the backquoted name).
InstructedCall == DirectiveText[2]

\* The tools a waiter directive lists, one per "- " bullet.
ListedTools ==
    {DirectiveText[i + 1] : i \in {j \in 1..(Len(DirectiveText) - 1) : DirectiveText[j] = "- "}}

Passed == last.ret = "None" /\ RequestUnchanged

---------------------------------------------------------------------------
(* C1..C10 *)

\* C1 -- Sequential prefix rule: whenever the captain gate injects a directive,
\* the step it names is the first step of CAPTAIN_WORKFLOW_TOOLS, scanning from
\* the start, that is not complete; a complete later step does not unblock an
\* incomplete earlier one.
C1_SequentialPrefixRule ==
    (CaptainGateRan /\ DirectivePrepended) =>
        \E i \in DOMAIN CAPTAIN_WORKFLOW_TOOLS :
            /\ InstructedCall = CAPTAIN_WORKFLOW_TOOLS[i]
            /\ ~CaptainStepComplete(i)
            /\ \A j \in 1..(i - 1) : CaptainStepComplete(j)

\* Steps [A,B,C,D,..] with A and C complete, B and D not: the directive names B.
C1_Witness ==
    /\ CaptainGateRan /\ DirectivePrepended
    /\ CaptainStepComplete(1) /\ ~CaptainStepComplete(2)
    /\ CaptainStepComplete(3) /\ ~CaptainStepComplete(4)
    /\ InstructedCall = "get_reservations"

\* C2 -- Terminal short-circuit, as claimed: once transfer_to_agent has been
\* observed (flag true or call logged), an evaluation of the captain gate
\* leaves the request unchanged, even if an earlier step was never observed.
C2_TerminalShortCircuit ==
    (CaptainGateRan /\ CaptainStepComplete(Len(CAPTAIN_WORKFLOW_TOOLS))) => RequestUnchanged

C4_Monotonic ==
    [][\A k \in DOMAIN state : state[k] = TRUE => (k \in DOMAIN state' /\ state'[k] = TRUE)]_vars

\* A gate has run on a State holding two true flags and an empty log, so the
\* flags were set by trackers and kept through the later callbacks.
C4_Witness ==
    /\ pc = "after_callback" /\ last.fn \in GATES
    /\ events = <<>>
    /\ Cardinality({k \in DOMAIN state : state[k] = TRUE}) >= 2

\* C5 -- Self-initiated bypass, as claimed: if the pending request holds a part
\* with a function_call, the gate passes (returns None) and leaves the contents
\* unchanged, even when required steps are incomplete.
C5_SelfInitiatedBypass ==
    (pc = "after_callback" /\ last.fn \in GATES /\ RequestHasToolCall) => Passed

\* C6 -- Unordered completeness: with no tool invocation in the pending request
\* the waiter gate passes if and only if get_customer_orders and get_menu are
\* both complete, in whatever order they were completed.
C6_WaiterPassesIffBothComplete ==
    (WaiterGateRan /\ ~RequestHasToolCall) =>
        (Passed <=> \A t \in REQUIRED_WAITER_TOOLS : WaiterStepComplete(t))

\* Both steps completed in the order get_menu, get_customer_orders; the gate passes.
C6_Witness ==
    /\ WaiterGateRan /\ ~RequestHasToolCall /\ Passed
    /\ contents_in # <<>>
    /\ Len(events) = 2
    /\ events[1] = CallEvent("get_menu")
    /\ events[2] = CallEvent("get_customer_orders")

\* C7 -- When the waiter gate injects its directive, the tools the directive
\* lists are exactly the required steps that are not complete.
C7_DirectiveListsMissing ==
    (WaiterGateRan /\ DirectivePrepended) =>
        ListedTools = {t \in REQUIRED_WAITER_TOOLS : ~WaiterStepComplete(t)}

\* One step is complete, the other is not, and only the open one is listed.
C7_Witness ==
    /\ WaiterGateRan /\ DirectivePrepended
    /\ WaiterStepComplete("get_menu")
    /\ ListedTools = {"get_customer_orders"}

\* C8 -- as claimed: every gate evaluation returns None and either leaves the
\* request's content list as it was or adds exactly one directive block at
\* position 0 with the previous contents kept in order after it.
C8_GateFrame ==
    (pc = "after_callback" /\ last.fn \in GATES) =>
        /\ last.ret = "None"
        /\ RequestUnchanged \/ DirectivePrepended

\* C9 -- Fail-open, as claimed: no gate evaluation raises; on any input the
\* gate returns None.
C9_GateNeverRaises ==
    (pc = "after_callback" /\ last.fn \in GATES) => last.ret # "raise"

\* C10 -- Reconciliation replay: after a gate was evaluated for its own agent,
\* State holds true for every registered step of that gate whose call is in the
\* event log; with the log of all five captain steps the captain gate passes
\* and all five flags are true.
C10_ReconciliationReplay ==
    /\ CaptainGateRan =>
          \A i \in DOMAIN CAPTAIN_WORKFLOW_TOOLS :
              CallLogged(CAPTAIN_WORKFLOW_TOOLS[i]) => FlagTrue(CaptainKey(CAPTAIN_WORKFLOW_TOOLS[i]))
    /\ WaiterGateRan =>
          \A t \in REQUIRED_WAITER_TOOLS : CallLogged(t) => FlagTrue(WaiterKey(t))
    /\ (CaptainGateRan /\ \A i \in DOMAIN CAPTAIN_WORKFLOW_TOOLS : CallLogged(CAPTAIN_WORKFLOW_TOOLS[i])) =>
          /\ Passed
          /\ \A i \in DOMAIN CAPTAIN_WORKFLOW_TOOLS : FlagTrue(CaptainKey(CAPTAIN_WORKFLOW_TOOLS[i]))

\* The log of the five captain calls, five true flags, and the gate passed on a
\* request that holds no tool invocation.
C10_Witness ==
    /\ CaptainGateRan /\ Passed /\ ~RequestHasToolCall /\ contents_in # <<>>
    /\ events = CaptainFullLog
    /\ DOMAIN state = {CaptainKey(CAPTAIN_WORKFLOW_TOOLS[i]) : i \in DOMAIN CAPTAIN_WORKFLOW_TOOLS}


---------------------------------------------------------------------------
(* C11..C20 *)

\* Every flag that is true in State belongs to a registered step whose call is
\* also in the event log.
TrackedCallsLogged ==
    \A k \in DOMAIN state : state[k] = TRUE =>
        \/ \E t \in CaptainToolSet : k = CaptainKey(t) /\ CallLogged(t)
        \/ \E t \in REQUIRED_WAITER_TOOLS : k = WaiterKey(t) /\ CallLogged(t)

\* The gate of the session's role evaluated for its own agent on State st.
OwnGateResult(st, req) ==
    IF registered = "captain"
    THEN EnforceCaptainResult("captain_agent", st, events, req)
    ELSE EnforceWaiterResult("waiter_agent", st, events, req, hashOrder)

\* C11 -- State-loss tolerance: when every flag of State is backed by a call in
\* the event log, a gate evaluation on the empty State has the same outcome as
\* on the intact State: the same return and the same contents, so the same
\* pass/fail decision and the same directive text.
C11_StateLossTolerance ==
    (pc = "idle" /\ TrackedCallsLogged) =>
        \A req \in Requests :
            LET intact == OwnGateResult(state, req)
                lost == OwnGateResult(EmptyState, req)
            IN  intact.ret = lost.ret /\ intact.contents = lost.contents

\* get_customer is tracked in State and logged; on the empty State the captain
\* gate still injects its directive for get_reservations.
C11_Witness ==
    /\ pc = "idle" /\ registered = "captain"
    /\ FlagTrue(CaptainKey("get_customer")) /\ TrackedCallsLogged
    /\ \E req \in Requests :
          LET lost == OwnGateResult(EmptyState, req) IN
          /\ Len(lost.contents) = Len(req) + 1
          /\ lost.contents[1].parts.list[1].text[2] = "get_reservations"


\* The pending request is well formed and holds no tool invocation: every
\* content carries a list of parts and no part carries a function_call.
NoPendingToolInvocation == RequestPartsPresent /\ ~RequestHasToolCall

\* A get_customer call event of the log whose response carries an id.
CustomerIdLogged ==
    \E i \in DOMAIN events :
        /\ "function_call" \in DOMAIN events[i]
        /\ events[i].function_call.name = "get_customer"
        /\ "function_response" \in DOMAIN events[i]
        /\ "id" \in DOMAIN events[i].function_response

\* The tokens of the directive text other than its fixed wording.
DirectiveHasToken(v) == \E i \in DOMAIN DirectiveText : DirectiveText[i] = v

\* C12 -- End-to-end extraction: in a session whose only recorded step is a
\* get_customer call with a response carrying id cust001, a captain gate
\* evaluation with no pending tool invocation finds get_reservations as the
\* next step (NextIndex = 1, the second step) and prepends a directive that
\* names get_reservations and embeds the literal cust001.
C12_EndToEndExtraction ==
    (/\ CaptainGateRan /\ NoPendingToolInvocation
     /\ events = <<CallEventWithResponse("get_customer", [id |-> "cust001"])>>
     /\ DOMAIN state \subseteq {CaptainKey("get_customer")}) =>
        /\ last.ret = "None"
        /\ FirstIncomplete = 2
        /\ DirectivePrepended
        /\ InstructedCall = "get_reservations"
        /\ DirectiveHasToken("cust001")

\* The scenario of test_enforce_captain_workflow_extracts_customer_id: one text
\* content pending, the directive with the id in front of it.
C12_Witness ==
    /\ CaptainGateRan
    /\ events = <<CallEventWithResponse("get_customer", [id |-> "cust001"])>>
    /\ state = StateSetTrue(EmptyState, CaptainKey("get_customer"))
    /\ contents_in = <<UserContent(PyList(<<TextPart>>))>>
    /\ DirectivePrepended
    /\ DirectiveText[2] = "get_reservations" /\ DirectiveText[4] = "cust001"

\* C13 -- Degraded extraction: when the next step is get_reservations and no
\* get_customer event of the log carries a response with an id, a captain gate
\* evaluation with no pending tool invocation does not raise and prepends a
\* non-empty directive that names get_reservations and embeds no id literal.
C13_DegradedExtraction ==
    (/\ CaptainGateRan /\ NoPendingToolInvocation
     /\ FirstIncomplete = 2 /\ ~CustomerIdLogged) =>
        /\ last.ret = "None"
        /\ DirectivePrepended
        /\ Len(DirectiveText) = 3
        /\ InstructedCall = "get_reservations"
        /\ DirectiveText[3] = " with the customer_id from the previous get_customer call. Do NOT ask the customer if they have a reservation - check automatically. Call the tool now."

\* The log holds a get_customer call without a response and the gate still
\* instructs get_reservations.
C13_Witness ==
    /\ CaptainGateRan /\ NoPendingToolInvocation /\ contents_in # <<>>
    /\ events = <<CallEvent("get_customer")>>
    /\ DirectivePrepended /\ InstructedCall = "get_reservations"
    /\ Len(DirectiveText) = 3


\* The agent a gate is written for.
OwnAgent(fn) ==
    IF fn = "enforce_captain_workflow" THEN "captain_agent" ELSE "waiter_agent"

\* C14 -- Unknown agent context: a gate evaluated for an agent other than its
\* own is a no-op pass: it returns None, leaves the request's content list as
\* it was and changes no key of State, whatever the event log contains.
C14_OtherAgentNoOp ==
    [][(pc' = "after_callback" /\ last'.fn \in GATES /\ agent_name' # OwnAgent(last'.fn)) =>
          /\ last'.ret = "None"
          /\ llm_request' = contents_in'
          /\ state' = state]_vars

\* The captain gate ran for waiter_agent on a log holding a get_customer call
\* and a request with a parts-less content: State stayed empty, nothing raised.
C14_Witness ==
    /\ GateRan("enforce_captain_workflow") /\ agent_name = "waiter_agent"
    /\ CallLogged("get_customer")
    /\ state = EmptyState
    /\ \E i \in DOMAIN contents_in : contents_in[i].parts = NoneVal
    /\ last.ret = "None" /\ RequestUnchanged


TRACKERS == {"track_waiter_tools", "track_captain_tools"}

\* A tracker has just run.
TrackerRan == pc = "after_callback" /\ last.fn \in TRACKERS

\* The State key a tracker writes for a tool, and the tools it is registered for.
TrackerKey(fn, tool) ==
    IF fn = "track_captain_tools" THEN CaptainKey(tool) ELSE WaiterKey(tool)

TrackerTools(fn) ==
    IF fn = "track_captain_tools" THEN CaptainToolSet ELSE REQUIRED_WAITER_TOOLS

\* C15 -- Tracker idempotence: a tracker invoked for a step whose flag is
\* already true, as it is after a first invocation for that step, leaves State
\* exactly as it was.
C15_TrackerIdempotent ==
    [][(/\ pc' = "after_callback" /\ last'.fn \in TRACKERS
        /\ FlagTrue(TrackerKey(last'.fn, last'.tool))) => state' = state]_vars

\* A tracker ran for get_customer on a State where that flag was already
\* true; the log is empty, so only an earlier tracker invocation can have set
\* it, and State holds get_customer and one more flag as before.
C15_Witness ==
    /\ TrackerRan /\ last.fn = "track_captain_tools" /\ last.tool = "get_customer"
    /\ last.before
    /\ events = <<>>
    /\ DOMAIN state = {CaptainKey("get_customer"), CaptainKey("assign_table")}

\* C16 -- Tracker frame: a tracker invoked for a tool registered with it sets
\* exactly that step's flag to true and changes no other key of State; invoked
\* for any other tool it leaves State unchanged; it returns None in both cases.
C16_TrackerFrame ==
    [][(pc' = "after_callback" /\ last'.fn \in TRACKERS) =>
          /\ last'.ret = "None"
          /\ IF last'.tool \in TrackerTools(last'.fn)
             THEN /\ DOMAIN state' = (DOMAIN state) \cup {TrackerKey(last'.fn, last'.tool)}
                  /\ state'[TrackerKey(last'.fn, last'.tool)] = TRUE
                  /\ \A k \in (DOMAIN state) \ {TrackerKey(last'.fn, last'.tool)} :
                        state'[k] = state[k]
             ELSE state' = state]_vars

\* The waiter tracker ran for create_order, which is not a required tool, on a
\* State that holds the get_menu flag: State is still that one flag.
C16_Witness ==
    /\ TrackerRan /\ last.fn = "track_waiter_tools" /\ last.tool = "create_order"
    /\ last.ret = "None"
    /\ DOMAIN state = {WaiterKey("get_menu")}


\* The tools registered with a gate and the State key of each.
GateTools(fn) ==
    IF fn = "enforce_captain_workflow" THEN CaptainToolSet ELSE REQUIRED_WAITER_TOOLS

GateKey(fn, tool) ==
    IF fn = "enforce_captain_workflow" THEN CaptainKey(tool) ELSE WaiterKey(tool)

\* C17 -- Directive injection never mutates State: in a gate evaluation that
\* injects a directive every key of State keeps its value, and the only keys
\* added are true flags of registered steps whose call is in the event log;
\* with a log holding no call of a registered tool State is exactly unchanged.
C17_InjectionStateFrame ==
    [][(/\ pc' = "after_callback" /\ last'.fn \in GATES
        /\ Len(llm_request') = Len(contents_in') + 1) =>
          /\ \A k \in DOMAIN state : k \in DOMAIN state' /\ state'[k] = state[k]
          /\ \A k \in (DOMAIN state') \ (DOMAIN state) :
                /\ state'[k] = TRUE
                /\ \E t \in GateTools(last'.fn) : k = GateKey(last'.fn, t) /\ CallLogged(t)
          /\ (\A t \in GateTools(last'.fn) : ~CallLogged(t)) => state' = state]_vars

\* The waiter gate injected its directive for get_customer_orders; the log
\* holds a get_menu call and a create_order call, and State holds the get_menu
\* flag alone.
C17_Witness ==
    /\ WaiterGateRan /\ DirectivePrepended
    /\ CallLogged("get_menu") /\ CallLogged("create_order")
    /\ DOMAIN state = {WaiterKey("get_menu")}
    /\ ListedTools = {"get_customer_orders"}


\* The stored table with the id of the assign_table call that is being made.
AssignTarget == {i \in DOMAIN tables : tables[i].id = call'.table_id}

\* C18 -- assign_table returns success exactly for an existing table whose
\* status is available, and then that table is occupied with the given
\* customer_id and no other table has changed; for a table that is not
\* available it returns the error Table is not available, for an unknown table
\* id the error Table not found, and in both error cases the stored tables
\* are unchanged.
C18_AssignTable ==
    [][call'.op = "assign_table" =>
          /\ resp'.status = "success" <=>
                \E i \in AssignTarget : tables[i].status = "available"
          /\ resp'.status = "success" =>
                /\ DOMAIN tables' = DOMAIN tables
                /\ \A i \in AssignTarget :
                      /\ tables'[i].status = "occupied"
                      /\ tables'[i].customer_id = PyStr(call'.customer_id)
                      /\ tables'[i].id = tables[i].id
                      /\ tables'[i].capacity = tables[i].capacity
                /\ \A i \in (DOMAIN tables) \ AssignTarget : tables'[i] = tables[i]
          /\ (\E i \in AssignTarget : tables[i].status # "available") =>
                /\ resp' = [status |-> "error", message |-> "Table is not available"]
                /\ tables' = tables
          /\ AssignTarget = {} =>
                /\ resp' = [status |-> "error", message |-> "Table not found"]
                /\ tables' = tables]_vars

\* table01 was assigned to cust002; a later assign_table of table01 for cust001
\* was refused and table01 is still occupied by cust002.
C18_Witness ==
    /\ call = [op |-> "assign_table", customer_id |-> "cust001", table_id |-> "table01"]
    /\ resp = [status |-> "error", message |-> "Table is not available"]
    /\ \E i \in DOMAIN tables :
          /\ tables[i].id = "table01"
          /\ tables[i].status = "occupied"
          /\ tables[i].customer_id = PyStr("cust002")


\* Bills that go from not paid to paid in the step, for one customer id.
BillsPaidInStep(customer_id) ==
    {j \in DOMAIN bills :
        /\ bills[j].customer_id = customer_id
        /\ bills[j].status # "paid"
        /\ bills'[j].status = "paid"}

\* C19 -- process_payment moves a bill to paid at most once: a call on a bill
\* that is already paid returns the error Bill already paid and leaves bills
\* and customers unchanged; in every step a customer's total_visits grows by
\* exactly the number of that customer's bills paid in the step; and a paid
\* bill stays paid with the payment_method it was paid with.
C19_PaidAtMostOnce ==
    [][/\ (/\ call'.op = "process_payment"
            /\ \E j \in DOMAIN bills :
                  bills[j].id = call'.bill_id /\ bills[j].status = "paid") =>
              /\ resp' = [status |-> "error", message |-> "Bill already paid"]
              /\ bills' = bills
              /\ customers' = customers
       /\ \A i \in DOMAIN customers :
              customers'[i].total_visits =
                  customers[i].total_visits + Cardinality(BillsPaidInStep(customers[i].id))
       /\ \A i \in DOMAIN customers : Cardinality(BillsPaidInStep(customers[i].id)) <= 1
       /\ \A j \in DOMAIN bills : bills[j].status = "paid" =>
              /\ bills'[j].status = "paid"
              /\ bills'[j].payment_method = bills[j].payment_method]_vars

\* The bill was paid by card; a second process_payment of it with cash was
\* refused, the bill still says card and cust001 has one visit.
C19_Witness ==
    /\ call.op = "process_payment" /\ call.payment_method = "cash"
    /\ resp = [status |-> "error", message |-> "Bill already paid"]
    /\ \E j \in DOMAIN bills :
          /\ bills[j].id = call.bill_id
          /\ bills[j].status = "paid"
          /\ bills[j].payment_method = "card"
          /\ bills[j].customer_id = "cust001"
    /\ \E i \in DOMAIN customers :
          customers[i].id = "cust001" /\ customers[i].total_visits = 1


\* A stored customer matches the arguments of the get_customer call that is
\* being made: by a phone that is given, or by a name that is given and is
\* contained in the stored name whatever the case of the letters.
MatchesCall(customer) ==
    \/ call'.phone # "" /\ customer.phone = call'.phone
    \/ /\ call'.name # <<>>
       /\ \E k \in 0..Len(customer.name) :
             /\ k + Len(call'.name) <= Len(customer.name)
             /\ \A i \in DOMAIN call'.name :
                   LowerChar(customer.name[k + i]) = LowerChar(call'.name[i])

\* C20 -- get_customer is find-or-create, as claimed: when a stored customer
\* matches it returns found and adds no record; otherwise it appends exactly
\* one new customer and returns created; and for every name and phone a call
\* that repeats the call before it returns found with the same customer id
\* and adds no record.
C20_FindOrCreate ==
    [][call'.op = "get_customer" =>
          /\ (\E i \in DOMAIN customers : MatchesCall(customers[i])) =>
                /\ resp'.status = "found"
                /\ customers' = customers
          /\ (\A i \in DOMAIN customers : ~MatchesCall(customers[i])) =>
                /\ resp'.status = "created"
                /\ customers' = Append(customers, resp'.customer)
          /\ call = call' =>
                /\ resp'.status = "found"
                /\ resp'.customer.id = resp.customer.id
                /\ customers' = customers]_vars

---------------------------------------------------------------------------
(* C21..C30 *)

\* A turn of an agent has just had its before-model hook, if any, applied.
TurnOf(agent) == pc = "after_callback" /\ agent_name = agent /\ last.tool = ""

\* C21 -- as claimed: in the assembled system a waiter_agent turn in which
\* get_customer_orders or get_menu has not yet been called and whose request
\* holds no tool invocation gets the waiter directive, listing the tools not
\* yet called, prepended before generation.
C21_WaiterGateInForce ==
    (/\ TurnOf("waiter_agent") /\ NoPendingToolInvocation
     /\ \E t \in REQUIRED_WAITER_TOOLS : ~WaiterStepComplete(t)) =>
        /\ DirectivePrepended
        /\ ListedTools = {t \in REQUIRED_WAITER_TOOLS : ~WaiterStepComplete(t)}

\* The ids of the orders a bill includes.
BilledOrders(bill) == {bill.orders[i] : i \in DOMAIN bill.orders}

\* C22 -- as claimed: generate_bill bills only unpaid orders: a bill that
\* generate_bill appends includes no order that is already included in a bill
\* that has been paid.
C22_NoOrderChargedTwice ==
    [][(call'.op = "generate_bill" /\ resp'.status = "success") =>
          \A j \in DOMAIN bills :
              bills[j].status = "paid" =>
                  BilledOrders(resp'.bill) \cap BilledOrders(bills[j]) = {}]_vars


OrderStatuses == { "pending", "preparing", "ready", "served" }

\* C23: after any create_order or update_order_status call, with any status
\* argument, every stored order has one of the statuses pending, preparing,
\* ready, served, and create_order stores its order as pending.
C23_OrderStatusEnumeration ==
    [][(call'.op \in {"create_order", "update_order_status"}) =>
          /\ \A i \in DOMAIN orders' : orders'[i].status \in OrderStatuses
          /\ call'.op = "create_order" =>
                /\ orders' = Append(orders, resp'.order)
                /\ resp'.order.status = "pending"]_vars


\* The table of that id in the stored tables, as a set (empty when absent).
TableOfId(tbls, table_id) == {tbls[i] : i \in {j \in DOMAIN tbls : tbls[j].id = table_id}}

\* C24: for every tool of ALL_TOOLS the arguments the wrapper sends have exactly
\* the parameter names of the backend operation, so every wrapper call enters
\* its operation; release_table through the wrapper releases the occupied
\* table it was given.
C24_WrapperRefinesBackend ==
    [][("arguments" \in DOMAIN call') =>
          /\ \A tool \in ALL_TOOLS : WrapperArgumentNames(tool) = BackendParameters(tool)
          /\ DOMAIN call'.arguments = BackendParameters(call'.op)
          /\ resp'.status # "invalid_arguments"
          /\ call'.op = "release_table" =>
                \A t \in TableOfId(tables, call'.arguments.table_id) :
                    t.status = "occupied" =>
                        \A u \in TableOfId(tables', t.id) : u.status = "available"]_vars


\* The position of a tool in CAPTAIN_WORKFLOW_TOOLS, from 1.
StepIndex(tool) == CHOOSE i \in DOMAIN CAPTAIN_WORKFLOW_TOOLS : CAPTAIN_WORKFLOW_TOOLS[i] = tool

AllCaptainStepsComplete == \A i \in DOMAIN CAPTAIN_WORKFLOW_TOOLS : CaptainStepComplete(i)

DirectivesAdvance ==
    /\ \A i \in 1..(Len(directives) - 1) :
          StepIndex(directives[i]) < StepIndex(directives[i + 1])
    /\ Len(directives) <= 4

RequiredStepsComplete ==
    IF registered = "captain" THEN AllCaptainStepsComplete
    ELSE \A t \in REQUIRED_WAITER_TOOLS : WaiterStepComplete(t)

\* C26: once all required steps of a gate are complete they stay complete
\* through every tracker callback, appended event and gate evaluation, and
\* every evaluation of the gate with them complete passes: it returns None
\* and leaves the request as the host assembled it.
C26_CompletionStable ==
    [][/\ RequiredStepsComplete => RequiredStepsComplete'
       /\ (\E fn \in GATES : GateRan(fn)' /\ RequiredStepsComplete') => Passed']_vars

\* A captain gate evaluation on a non-empty request passed with all five flags
\* set by the tracker and an event appended to the log.
C26_Witness ==
    /\ CaptainGateRan /\ Passed
    /\ \A i \in DOMAIN CAPTAIN_WORKFLOW_TOOLS : FlagTrue(CaptainKey(CAPTAIN_WORKFLOW_TOOLS[i]))
    /\ events # <<>>
    /\ contents_in # <<>> /\ NoPendingToolInvocation


\* The first three steps of the captain workflow are complete.
ReadyToSeat == \A i \in 1..3 : CaptainStepComplete(i)

\* C27: a step is complete once its call is observed, whatever the outcome:
\* after track_captain_tools ran for an assign_table call the flag is set even
\* when the response has status error; a captain gate evaluation sets the flag
\* from a logged call event without response; so a gate evaluation after a
\* failed assign_table never names assign_table, and with the earlier steps
\* complete and no pending tool invocation it names transfer_to_agent.
C27_CompleteOnObservation ==
    /\ (TrackerRan /\ last.tool = "assign_table") =>
           FlagTrue(CaptainKey("assign_table"))
    /\ (CaptainGateRan /\ CallLogged("assign_table")) =>
           FlagTrue(CaptainKey("assign_table"))
    /\ (CaptainGateRan /\ call.op = "assign_table" /\ resp.status = "error") =>
           /\ DirectivePrepended => InstructedCall # "assign_table"
           /\ (ReadyToSeat /\ NoPendingToolInvocation) =>
                  DirectivePrepended /\ InstructedCall = "transfer_to_agent"

\* assign_table failed on an occupied table, nothing was logged, and the gate
\* names transfer_to_agent.
C27_Witness ==
    /\ CaptainGateRan
    /\ call.op = "assign_table"
    /\ resp = ErrorResponse("Table is not available")
    /\ events = <<>>
    /\ DirectivePrepended
    /\ InstructedCall = "transfer_to_agent"


\* The positions of the get_customer call events in the log.
GetCustomerEvents ==
    {i \in DOMAIN events :
        /\ "function_call" \in DOMAIN events[i]
        /\ events[i].function_call.name = "get_customer"}

\* The event has a response with a top-level id field.
HasTopLevelId(e) ==
    "function_response" \in DOMAIN e /\ "id" \in DOMAIN e.function_response

\* The get_reservations directive without an id has three tokens, the one with
\* an id has five, the id being the fourth.
DegradedDirective == Len(DirectiveText) = 3

EmbedsId(v) == Len(DirectiveText) = 5 /\ DirectiveText[4] = v

C29_ConcurrentAssignExclusive ==
    (/\ DOMAIN proc = Requesters
     /\ \A p \in Requesters : proc[p].pc = "done"
     /\ proc[1].table_id = proc[2].table_id
     /\ \E t \in TableOfId(FixtureTables, proc[1].table_id) : t.status = "available") =>
        /\ Cardinality({p \in Requesters : proc[p].ret.status = "success"}) <= 1
        /\ \A p \in Requesters :
              proc[p].ret.status = "success" =>
                  \A t \in TableOfId(tables, proc[p].table_id) :
                      t.customer_id = PyStr(proc[p].customer_id)


\* Every table is occupied exactly when it has a customer_id and available
\* exactly when its customer_id is null.
TablesConsistent ==
    \A i \in DOMAIN tables :
        /\ tables[i].status = "occupied" <=> tables[i].customer_id # NoneVal
        /\ tables[i].status = "available" <=> tables[i].customer_id = NoneVal

\* The occupied tables of the capacity given to the release_table call of the step.
ReleaseCandidates ==
    {i \in DOMAIN tables :
        tables[i].capacity = call'.capacity /\ tables[i].status = "occupied"}

\* C30: through every sequence of assign_table and release_table calls the
\* tables stay consistent (occupied exactly with a customer_id, available
\* exactly without); release_table changes at most one table, the first
\* occupied one of the given capacity, which becomes available with no
\* customer_id, and with no such table it returns an error and leaves all
\* tables unchanged.
C30_TableConsistency ==
    /\ []TablesConsistent
    /\ [][call'.op = "release_table" =>
            IF ReleaseCandidates = {}
            THEN resp'.status = "error" /\ tables' = tables
            ELSE LET first == Min(ReleaseCandidates) IN
                 /\ resp'.status = "success"
                 /\ DOMAIN tables' = DOMAIN tables
                 /\ \A i \in (DOMAIN tables) \ {first} : tables'[i] = tables[i]
                 /\ tables'[first].status = "available"
                 /\ tables'[first].customer_id = NoneVal
                 /\ tables'[first].id = tables[first].id]_vars

\* Both tables of capacity 2 were occupied; release_table(2) released table01,
\* the first of them, and table02 is still occupied.
C30_Witness ==
    /\ call = [op |-> "release_table", capacity |-> 2]
    /\ resp.status = "success"
    /\ resp.table.id = "table01"
    /\ \E i \in DOMAIN tables :
          /\ tables[i].id = "table02" /\ tables[i].capacity = 2
          /\ tables[i].status = "occupied"

=============================================================================
